---------------------------- MODULE Spec2Model ----------------------------
(***************************************************************************)
(* The MNQ option-overlay backtest: the day loop of run_sim (mnq_sim.py)   *)
(* and of run_strategy_on (random_mnq_sim.py), the z-score signal, the two *)
(* process-wide random generators they draw from, and the post-loop code   *)
(* that builds the returned tables.                                        *)
(*                                                                         *)
(* Units.  Closes are index points and money is dollars, both kept as      *)
(* integers (the code uses floats; every quantity the model needs is a sum *)
(* or product of the integers chosen here).  A z-score is kept exactly as  *)
(* the pair (num, var) with z = num / sqrt(var); thresholds are fractions. *)
(* A uniform draw u in [0,1) is kept in hundredths.                        *)
(***************************************************************************)
EXTENDS Integers, Sequences, FiniteSets, TLC

\* ------------------------------------------------------------------------
\* Strategy configuration
\* ------------------------------------------------------------------------
SEED == 42
START_EQUITY == 1000000
CONTRACT_NOTIONAL == 60000
POINT_VALUE == 2
TARGET_POINTS == 250
ROLL_WINDOW == 20
PUT_MEAN == 105
PUT_MIN == 80
PUT_MAX == 130
PUT_SIGMA == 10
CALL_MEAN == 135
CALL_MIN == 100
CALL_MAX == 170
CALL_SIGMA == 12
\* 0.35
ASSIGN_PROB == [num |-> 35, den |-> 100]

\* run_sim (historical engine)
HIST_RISK_CAP == 1200000
\* -1.5
HIST_PUT_Z == [num |-> -3, den |-> 2]
\* +2.0
HIST_CALL_Z == [num |-> 2, den |-> 1]
HIST_CHOICES == <<1, 2>>

\* run_strategy_on (random-market engine)
RAND_RISK_CAP == 1350000
\* -0.5
RAND_PUT_Z == [num |-> -1, den |-> 2]
\* +0.75
RAND_CALL_Z == [num |-> 3, den |-> 4]
RAND_CHOICES == <<5, 6, 7>>

Engines == {"run_sim", "run_strategy_on"}

\* An engine e is a function's code with its module's constants.  Besides
\* the two shipped, SideBySide(e) is the code of the other function run with
\* the constants of e.
SideBySide(e) ==
    IF e = "run_sim" THEN "run_strategy_on code, run_sim constants"
    ELSE "run_sim code, run_strategy_on constants"

CodeOf(e) ==
    IF e \in {"run_sim", SideBySide("run_strategy_on")}
    THEN "run_sim" ELSE "run_strategy_on"

ConstantsOf(e) ==
    IF e \in {"run_sim", SideBySide("run_sim")}
    THEN "run_sim" ELSE "run_strategy_on"

RISK_CAP(e) == IF ConstantsOf(e) = "run_sim" THEN HIST_RISK_CAP ELSE RAND_RISK_CAP
PUT_Z(e) == IF ConstantsOf(e) = "run_sim" THEN HIST_PUT_Z ELSE RAND_PUT_Z
CALL_Z(e) == IF ConstantsOf(e) = "run_sim" THEN HIST_CALL_Z ELSE RAND_CALL_Z
CHOICES(e) == IF ConstantsOf(e) = "run_sim" THEN HIST_CHOICES ELSE RAND_CHOICES

\* ------------------------------------------------------------------------
\* Bounds of the model
\* ------------------------------------------------------------------------
\* Lengths of the input price series: 0, 1 and MaxDays rows.
MaxDays == 31
\* The inputs (daily moves of the close, outcomes of the random draws) leave
\* their default on at most MaxDevs occasions in one process.
MaxDevs == 1
\* Draws made by other code between two invocations.
MaxOther == 1

\* ------------------------------------------------------------------------
\* Small helpers
\* ------------------------------------------------------------------------
\* float("nan") as a z value
NaN == [nan |-> TRUE, num |-> 0, var |-> 0]

Min(a, b) == IF a <= b THEN a ELSE b
Max(a, b) == IF a >= b THEN a ELSE b
Abs(a) == IF a < 0 THEN -a ELSE a

RECURSIVE SumSeq(_)
SumSeq(s) == IF s = <<>> THEN 0 ELSE Head(s) + SumSeq(Tail(s))

\* a*a >= m for 0 <= m < 2^31, without leaving 32-bit arithmetic
SqGe(a, m) == Abs(a) > 46340 \/ a * a >= m
SqLe(a, m) == Abs(a) <= 46340 /\ a * a <= m

\* sum(x.contracts for x in xs)
Contracts(xs) == SumSeq([jx \in 1..Len(xs) |-> xs[jx].contracts])


\* ------------------------------------------------------------------------
\* Signal calculator (add_zscores)
\* ------------------------------------------------------------------------
\* The closes of the trailing window that ends on day i (1-based).
Window(cl, i, window) == SubSeq(cl, i - window + 1, i)

\* Mutant: a window of zero deviation gives z = -infinity, not NaN.
add_zscores_FlatAsLow(cl, i, window) ==
    IF i < window THEN NaN
    ELSE LET win == Window(cl, i, window)
             S == SumSeq(win)
             Q == SumSeq([k \in 1..window |-> win[k] * win[k]])
             var == window * Q - S * S
         IN  [nan |-> FALSE,
              num |-> IF var = 0 THEN -1 ELSE window * cl[i] - S,
              var |-> var]

\* Mutant: z is computed on the closes there are while the window is not
\* full (rolling(window, min_periods=2)).
add_zscores_Partial(cl, i, window) ==
    IF i < 2 THEN NaN
    ELSE LET w == Min(i, window)
             win == SubSeq(cl, i - w + 1, i)
             S == SumSeq(win)
             Q == SumSeq([k \in 1..w |-> win[k] * win[k]])
             var == w * Q - S * S
         IN  IF var = 0 THEN NaN
             ELSE [nan |-> FALSE, num |-> w * cl[i] - S, var |-> var]

\* z of day i: NaN while fewer than `window` closes exist (rolling(window)
\* needs a full window), NaN when the window's deviation is 0 (0.0/0.0),
\* otherwise (close - ma) / sd with ddof = 0.  With S the window's sum and Q
\* its sum of squares, ma = S/w and sd = sqrt(w*Q - S*S)/w, so
\* z = (w*close - S) / sqrt(w*Q - S*S).
add_zscores(cl, i, window) ==
    IF i < window THEN NaN
    ELSE LET win == Window(cl, i, window)
             S == SumSeq(win)
             Q == SumSeq([k \in 1..window |-> win[k] * win[k]])
             var == window * Q - S * S
         IN  IF var = 0 THEN NaN
             ELSE [nan |-> FALSE, num |-> window * cl[i] - S, var |-> var]

\* math.isnan(z)
isnan(z) == z.nan

\* z <= thr and z >= thr for a number z = num/sqrt(var), thr = num/den, den > 0
ZLe(z, thr) ==
    LET a == thr.den * z.num
        m == thr.num * thr.num * z.var
    IN  IF thr.num < 0 THEN a < 0 /\ SqGe(a, m)
        ELSE a <= 0 \/ SqLe(a, m)

ZGe(z, thr) ==
    LET a == thr.den * z.num
        m == thr.num * thr.num * z.var
    IN  IF thr.num > 0 THEN a > 0 /\ SqGe(a, m)
        ELSE a >= 0 \/ SqLe(a, m)

\* ------------------------------------------------------------------------
\* Random generators
\* ------------------------------------------------------------------------
\* `random` ("py") and `np.random` ("np") are two process-wide generators.
\* After seed s and k draws a generator is in state (s, k); what it returns
\* there is a fixed but arbitrary raw value.  A raw value of `random` is a
\* uniform u in hundredths; a raw value of `np.random` is a standard normal
\* deviate.
PyRaw == {20, 90}
NpRaw == {-3, 0}

\* random.choice(seq) on the uniform u
choice(seq, u) == seq[((u * Len(seq)) \div 100) + 1]

\* random.random() < ASSIGN_PROB on the uniform u
Bernoulli(u) == u * ASSIGN_PROB.den < ASSIGN_PROB.num * 100

\* np.clip(x, low, high)
clip(x, low, high) == IF x < low THEN low ELSE IF x > high THEN high ELSE x

\* clipped_normal(mean, sigma, low, high) on the normal deviate g
clipped_normal(mean, sigma, low, high, g) == clip(mean + sigma * g, low, high)

\* ------------------------------------------------------------------------
\* State
\* ------------------------------------------------------------------------
VARIABLES
    run,            \* "none", "first", "second": the invocations started so far
    engine,         \* the function invoked: "run_sim" or "run_strategy_on"
    seed,           \* run_strategy_on's seed argument
    trend,          \* the default series of the input
    ndays,          \* len(dates): rows of the input price series
    closes,         \* the closes of the input series, as far as read
    pc,             \* "idle" (no invocation running) or "loop"
    i,              \* day iterations completed by the running invocation
    cash,
    positions,
    open_puts,
    open_calls,
    equity_curve,
    trade_log_rows,
    loc,            \* locals of the last day iteration
    rng,            \* state (seed, pos) of `random` and of `np.random`
    tape,           \* the raw values the generators returned, by state
    devs,           \* inputs that left their default so far
    others,         \* draws made by other code so far
    result,         \* what the last invocation returned or raised
    prev            \* result of the invocation before it

vars == <<run, engine, seed, trend, ndays, closes, pc, i, cash, positions,
          open_puts, open_calls, equity_curve, trade_log_rows, loc, rng,
          tape, devs, others, result, prev>>

\* ------------------------------------------------------------------------
\* Data classes and ledger rows
\* ------------------------------------------------------------------------
PutTicket(open_day, contracts, premium_per_contract, expires_on, assigned_contracts) ==
    [open_day |-> open_day, contracts |-> contracts,
     premium_per_contract |-> premium_per_contract,
     expires_on |-> expires_on, assigned_contracts |-> assigned_contracts]

CallTicket(open_day, contracts, premium_per_contract, expires_on) ==
    [open_day |-> open_day, contracts |-> contracts,
     premium_per_contract |-> premium_per_contract, expires_on |-> expires_on]

LongMNQ(entry_day, entry_price, contracts) ==
    [entry_day |-> entry_day, entry_price |-> entry_price, contracts |-> contracts]

AssignRow(day, t, price) ==
    [date |-> day, type |-> "ASSIGN_PUT", contracts |-> t.assigned_contracts,
     price |-> price, cash_change |-> 0, note |-> t.contracts]

CloseRow(day, p, price) ==
    [date |-> day, type |-> "CLOSE_LONG", contracts |-> p.contracts,
     entry_price |-> p.entry_price, exit_price |-> price,
     points |-> price - p.entry_price,
     pnl_usd |-> (price - p.entry_price) * POINT_VALUE * p.contracts,
     cash_change |-> (price - p.entry_price) * POINT_VALUE * p.contracts]

SellPutRow(day, n, prem, assigned) ==
    [date |-> day, type |-> "SELL_PUT", contracts |-> n,
     premium_per_contract |-> prem, cash_change |-> prem * n, note |-> assigned]

SkipRow(day, current_notional) ==
    [date |-> day, type |-> "SKIP_PUT_CAP", contracts |-> 0,
     premium_per_contract |-> 0, cash_change |-> 0, note |-> current_notional]

SellCallRow(day, n_cc, prem) ==
    [date |-> day, type |-> "SELL_COVERED_CALL", contracts |-> n_cc,
     premium_per_contract |-> prem, cash_change |-> prem * n_cc]

\* [f(x) for x in xs], as a sequence value
MapSeq(xs, f(_)) == <<>> \o [ix \in 1..Len(xs) |-> f(xs[ix])]

\* ------------------------------------------------------------------------
\* The day loop body, phase by phase.  A phase maps the engine's locals
\* s = [cash, positions, open_puts, open_calls, rows] to their new values.
\* ------------------------------------------------------------------------
\* Mutant: the longs do not count against the cap.
used_notional_PutsOnly(s) == Contracts(s.open_puts) * CONTRACT_NOTIONAL

\* used_notional()
used_notional(s) ==
    (Contracts(s.open_puts) + Contracts(s.positions)) * CONTRACT_NOTIONAL

\* Mutant: an assigned ticket opens a long of all its contracts.
ExpirePuts_WholeTicket(s, day, price) ==
    LET assigned == SelectSeq(s.open_puts,
                       LAMBDA t: day >= t.expires_on /\ t.assigned_contracts > 0)
    IN  [s EXCEPT
           !.positions = @ \o MapSeq(assigned,
                              LAMBDA t: LongMNQ(day, price, t.contracts)),
           !.rows = @ \o MapSeq(assigned, LAMBDA t: AssignRow(day, t, price)),
           !.open_puts = SelectSeq(@, LAMBDA t: ~(day >= t.expires_on))]

\* Mutant: at expiry the premium of the contracts not assigned is paid back.
ExpirePuts_Refund(s, day, price) ==
    LET expiring == SelectSeq(s.open_puts, LAMBDA t: day >= t.expires_on)
        assigned == SelectSeq(expiring, LAMBDA t: t.assigned_contracts > 0)
    IN  [s EXCEPT
           !.cash = @ - SumSeq(MapSeq(expiring,
                          LAMBDA t: t.premium_per_contract
                                      * (t.contracts - t.assigned_contracts))),
           !.positions = @ \o MapSeq(assigned,
                              LAMBDA t: LongMNQ(day, price, t.assigned_contracts)),
           !.rows = @ \o MapSeq(assigned, LAMBDA t: AssignRow(day, t, price)),
           !.open_puts = SelectSeq(@, LAMBDA t: ~(day >= t.expires_on))]

\* Mutant: an expiring ticket opens a long whatever its assigned_contracts.
ExpirePuts_AlsoUnassigned(s, day, price) ==
    LET assigned == SelectSeq(s.open_puts, LAMBDA t: day >= t.expires_on)
    IN  [s EXCEPT
           !.positions = @ \o MapSeq(assigned,
                              LAMBDA t: LongMNQ(day, price, t.assigned_contracts)),
           !.rows = @ \o MapSeq(assigned, LAMBDA t: AssignRow(day, t, price)),
           !.open_puts = SelectSeq(@, LAMBDA t: ~(day >= t.expires_on))]

\* Put expiries: a ticket with day >= expires_on leaves the open list; if it
\* was assigned, one long of assigned_contracts opens at today's close.
ExpirePuts(s, day, price) ==
    LET assigned == SelectSeq(s.open_puts,
                       LAMBDA t: day >= t.expires_on /\ t.assigned_contracts > 0)
    IN  [s EXCEPT
           !.positions = @ \o MapSeq(assigned,
                              LAMBDA t: LongMNQ(day, price, t.assigned_contracts)),
           !.rows = @ \o MapSeq(assigned, LAMBDA t: AssignRow(day, t, price)),
           !.open_puts = SelectSeq(@, LAMBDA t: ~(day >= t.expires_on))]

\* Mutant: a call ticket leaves the list a day before its expiry day.
ExpireCalls_Early(s, day) ==
    [s EXCEPT !.open_calls = SelectSeq(@, LAMBDA t: day + 1 < t.expires_on)]

\* Call expiries: premium-only, the ticket just leaves the list.
ExpireCalls(s, day) ==
    [s EXCEPT !.open_calls = SelectSeq(@, LAMBDA t: day < t.expires_on)]

\* Mutant: every long is closed at the day's close, whatever its gain.
HitsTarget_Any(p, price) == TRUE

\* Mutant: a long closes only when it is up more than TARGET_POINTS.
HitsTarget_Strict(p, price) == price - p.entry_price > TARGET_POINTS

\* The closing test of one long
HitsTarget(p, price) == price - p.entry_price >= TARGET_POINTS

\* Mutant: a closure realises TARGET_POINTS per contract, not the gain made.
CloseLongs_AtTarget(s, day, price) ==
    LET closed == SelectSeq(s.positions, LAMBDA p: HitsTarget(p, price))
    IN  [s EXCEPT
           !.cash = @ + SumSeq(MapSeq(closed,
                          LAMBDA p: TARGET_POINTS * POINT_VALUE * p.contracts)),
           !.rows = @ \o MapSeq(closed, LAMBDA p: CloseRow(day, p, price)),
           !.positions = SelectSeq(@, LAMBDA p: ~HitsTarget(p, price))]

\* Manage longs: close each long that is up TARGET_POINTS or more.
CloseLongs(s, day, price) ==
    LET closed == SelectSeq(s.positions, LAMBDA p: HitsTarget(p, price))
    IN  [s EXCEPT
           !.cash = @ + SumSeq(MapSeq(closed,
                          LAMBDA p: (price - p.entry_price) * POINT_VALUE * p.contracts)),
           !.rows = @ \o MapSeq(closed, LAMBDA p: CloseRow(day, p, price)),
           !.positions = SelectSeq(@, LAMBDA p: ~HitsTarget(p, price))]

\* Mutant: the put test excludes z = PUT_Z.
PutSignal_Strict(e, z) == ~isnan(z) /\ ~ZGe(z, PUT_Z(e))

\* Mutant: the call test excludes z = CALL_Z.
CallSignal_Strict(e, z, s) == ~isnan(z) /\ ~ZLe(z, CALL_Z(e)) /\ s.positions # <<>>

\* The two signal tests
PutSignal(e, z) == ~isnan(z) /\ ZLe(z, PUT_Z(e))
CallSignal(e, z, s) == ~isnan(z) /\ ZGe(z, CALL_Z(e)) /\ s.positions # <<>>

\* max_contracts = max(0, (RISK_CAP - current_notional) // CONTRACT_NOTIONAL)
MaxContracts(e, current_notional) ==
    Max(0, (RISK_CAP(e) - current_notional) \div CONTRACT_NOTIONAL)

\* Mutant: the candidate count is not clipped to the room under the cap.
ClippedCount_NoClip(cand, max_contracts) == cand

\* n = min(random.choice(choices), max_contracts)
ClippedCount(cand, max_contracts) == Min(cand, max_contracts)

\* Mutant: a put expires two dates after its sale.
PutExpiry_TPlus2(day, n_dates) == Min(day + 2, n_dates)

\* exp_day = dates[i + 1] if (i + 1) < len(dates) else day   (day = dates[i])
PutExpiry(day, n_dates) == IF day + 1 <= n_dates THEN day + 1 ELSE day

\* dates[min(i + 2, len(dates) - 1)]
CallExpiry(day, n_dates) == Min(day + 2, n_dates)

\* sum(1 for _ in range(n) if random.random() < ASSIGN_PROB) on the n uniforms us
AssignedCount(us) ==
    Cardinality({k \in 1..Len(us) : Bernoulli(us[k])})

\* Mutant: the first assignment test reads the value drawn for the choice.
SellPuts_ChoiceAsAssignment(e, s, day, n_dates, z, pyd, npd) ==
    IF ~PutSignal(e, z) THEN s
    ELSE LET current_notional == used_notional(s)
             max_contracts == MaxContracts(e, current_notional)
             n == ClippedCount(choice(CHOICES(e), pyd[1]), max_contracts)
         IN  IF n > 0
             THEN LET prem == clipped_normal(PUT_MEAN, PUT_SIGMA, PUT_MIN, PUT_MAX, npd[1])
                      assigned == AssignedCount(SubSeq(pyd, 1, n))
                  IN  [s EXCEPT
                         !.cash = @ + prem * n,
                         !.open_puts = Append(@, PutTicket(day, n, prem,
                                                  PutExpiry(day, n_dates), assigned)),
                         !.rows = Append(@, SellPutRow(day, n, prem, assigned))]
             ELSE IF CodeOf(e) = "run_strategy_on"
                  THEN [s EXCEPT !.rows = Append(@, SkipRow(day, current_notional))]
                  ELSE s

\* Put sale.  pyd holds the raw values `random` returns in this iteration, in
\* order: the choice, then the n assignment uniforms.  npd holds those of
\* `np.random`: the put premium if a put is sold, then the call premium.
SellPuts(e, s, day, n_dates, z, pyd, npd) ==
    IF ~PutSignal(e, z) THEN s
    ELSE LET current_notional == used_notional(s)
             max_contracts == MaxContracts(e, current_notional)
             n == ClippedCount(choice(CHOICES(e), pyd[1]), max_contracts)
         IN  IF n > 0
             THEN LET prem == clipped_normal(PUT_MEAN, PUT_SIGMA, PUT_MIN, PUT_MAX, npd[1])
                      assigned == AssignedCount(SubSeq(pyd, 2, n + 1))
                  IN  [s EXCEPT
                         !.cash = @ + prem * n,
                         !.open_puts = Append(@, PutTicket(day, n, prem,
                                                  PutExpiry(day, n_dates), assigned)),
                         !.rows = Append(@, SellPutRow(day, n, prem, assigned))]
             ELSE IF CodeOf(e) = "run_strategy_on"
                  THEN [s EXCEPT !.rows = Append(@, SkipRow(day, current_notional))]
                  ELSE s

\* Covered-call sale.  g is the raw value of its premium draw.
SellCalls(e, s, day, n_dates, z, g) ==
    IF ~CallSignal(e, z, s) THEN s
    ELSE LET n_cc == Contracts(s.positions)
         IN  IF n_cc > 0
             THEN LET prem == clipped_normal(CALL_MEAN, CALL_SIGMA, CALL_MIN, CALL_MAX, g)
                  IN  [s EXCEPT
                         !.cash = @ + prem * n_cc,
                         !.open_calls = Append(@, CallTicket(day, n_cc, prem,
                                                   CallExpiry(day, n_dates))),
                         !.rows = Append(@, SellCallRow(day, n_cc, prem))]
             ELSE s

\* Mutant: the mark-to-market ignores the size of a position.
Unrealized_PerPosition(ps, price) ==
    SumSeq(MapSeq(ps, LAMBDA p: (price - p.entry_price) * POINT_VALUE))

\* unreal = sum((price - p.entry_price) * POINT_VALUE * p.contracts for p in positions)
Unrealized(ps, price) ==
    SumSeq(MapSeq(ps, LAMBDA p: (price - p.entry_price) * POINT_VALUE * p.contracts))

\* The row appended to equity_curve (run_strategy_on's carries z as well).
EquitySample(e, s, day, price, z) ==
    LET row == [date |-> day,
                equity |-> s.cash + Unrealized(s.positions, price),
                cash |-> s.cash,
                unrealized |-> Unrealized(s.positions, price),
                held_contracts |-> Contracts(s.positions),
                open_puts |-> Contracts(s.open_puts),
                open_calls |-> Contracts(s.open_calls)]
    IN  IF CodeOf(e) = "run_strategy_on"
        THEN [f \in DOMAIN row \cup {"z"} |-> IF f = "z" THEN z ELSE row[f]]
        ELSE row

\* The three phases that draw nothing
AfterClosure(s, day, price) == CloseLongs(ExpireCalls(ExpirePuts(s, day, price), day), day, price)

\* One iteration of `for i, day in enumerate(dates)` up to the mark-to-market
Iterate(e, s, day, n_dates, price, z, pyd, npd) ==
    LET s3 == AfterClosure(s, day, price)
        s4 == SellPuts(e, s3, day, n_dates, z, pyd, npd)
    IN  SellCalls(e, s4, day, n_dates, z, IF npd = <<>> THEN 0 ELSE npd[Len(npd)])

\* The iteration's locals that the signal phase computes (0 where the branch
\* that assigns them is not taken).
Locals(e, s, day, price, z, pyd) ==
    LET s3 == AfterClosure(s, day, price)
        put_signal == PutSignal(e, z)
        max_contracts == MaxContracts(e, used_notional(s3))
        cand == IF put_signal THEN choice(CHOICES(e), pyd[1]) ELSE 0
    IN  [day |-> day, price |-> price, z |-> z,
         current_notional |-> used_notional(s3),
         put_signal |-> put_signal,
         max_contracts |-> IF put_signal THEN max_contracts ELSE 0,
         cand |-> cand,
         n |-> IF put_signal THEN ClippedCount(cand, max_contracts) ELSE 0,
         call_signal |-> CallSignal(e, z, s3),
         n_cc |-> IF CallSignal(e, z, s3) THEN Contracts(s3.positions) ELSE 0,
         py_draws |-> Len(pyd)]

NoLocals ==
    [day |-> 0, price |-> 0, z |-> NaN, current_notional |-> 0,
     put_signal |-> FALSE, max_contracts |-> 0, cand |-> 0, n |-> 0,
     call_signal |-> FALSE, n_cc |-> 0, py_draws |-> 0]

\* ------------------------------------------------------------------------
\* Statistics and the returned tables
\* ------------------------------------------------------------------------
\* x*y as three base-2^15 digits, most significant first (0 <= x, y < 2^21)
Product(x, y) ==
    LET K == 32768
        d0 == (x % K) * (y % K)
        d1 == (x \div K) * (y % K) + (x % K) * (y \div K) + (d0 \div K)
        d2 == (x \div K) * (y \div K) + (d1 \div K)
    IN  <<d2, d1 % K, d0 % K>>

LexLess(a, b) ==
    \/ a[1] < b[1]
    \/ a[1] = b[1] /\ a[2] < b[2]
    \/ a[1] = b[1] /\ a[2] = b[2] /\ a[3] < b[3]

\* f < g for fractions with num <= 0 < den
FracLess(f, g) == LexLess(Product(-g.num, f.den), Product(-f.num, g.den))

\* Mutant: the running maximum is the series itself.
cummax_Self(es) == es

\* series.cummax()
cummax(es) ==
    <<>> \o [t \in 1..Len(es) |->
                CHOOSE m \in {es[j] : j \in 1..t} : \A j \in 1..t : es[j] <= m]

\* max_drawdown: min over t of equity_t / cummax_t - 1, as the fraction
\* (equity_t - cummax_t) / cummax_t of the first day that attains the minimum.
max_drawdown(es) ==
    LET roll_max == cummax(es)
        dd == <<>> \o [t \in 1..Len(es) |->
                         [num |-> es[t] - roll_max[t], den |-> roll_max[t]]]
        first == CHOOSE t \in 1..Len(es) :
                    /\ \A j \in 1..Len(es) : ~FracLess(dd[j], dd[t])
                    /\ \A j \in 1..(t - 1) : FracLess(dd[t], dd[j])
    IN  dd[first]

\* eq["equity"].pct_change().fillna(0.0), each return as a fraction
pct_change(es) ==
    <<>> \o [d \in 1..Len(es) |->
                IF d = 1 THEN [num |-> 0, den |-> 1]
                ELSE [num |-> es[d] - es[d - 1], den |-> es[d - 1]]]

\* sharpe: nan when the returns' deviation is 0.  The first return is 0.0,
\* so the deviation is 0 exactly when every return is 0; with one return the
\* sample deviation is itself nan and so is the quotient.
sharpe(ret) ==
    IF \A k \in 1..Len(ret) : ret[k].num = 0
    THEN [nan |-> TRUE]
    ELSE [nan |-> FALSE]

\* cagr: nan with fewer than 2 samples, else a function of first, last, len
cagr(es) ==
    IF Len(es) < 2 THEN [nan |-> TRUE, first |-> 0, last |-> 0, periods |-> 0]
    ELSE [nan |-> FALSE, first |-> es[1], last |-> es[Len(es)], periods |-> Len(es)]

MaxOf(xs) == CHOOSE m \in {xs[k] : k \in 1..Len(xs)} : \A k \in 1..Len(xs) : xs[k] <= m

\* sort_values("date"): rows in date order, rows of one date in ledger order
RECURSIVE InsertByDate(_, _)
InsertByDate(sorted, r) ==
    IF sorted = <<>> THEN <<r>>
    ELSE IF sorted[Len(sorted)].date <= r.date THEN Append(sorted, r)
    ELSE Append(InsertByDate(SubSeq(sorted, 1, Len(sorted) - 1), r), sorted[Len(sorted)])

RECURSIVE sort_values(_)
sort_values(rows) ==
    IF rows = <<>> THEN <<>>
    ELSE InsertByDate(sort_values(SubSeq(rows, 1, Len(rows) - 1)), rows[Len(rows)])

Raised(exc) == [kind |-> "raised", exc |-> exc]
NoResult == [kind |-> "none"]

\* The statistics table of each engine
Stats(e, eq, rows) ==
    LET es == MapSeq(eq, LAMBDA r: r.equity)
        common == [FinalEquity |-> es[Len(es)], CAGR |-> cagr(es),
                   Sharpe |-> sharpe(pct_change(es)),
                   MaxDrawdown |-> max_drawdown(es)]
    IN  IF e = "run_sim"
        THEN [FinalEquity |-> common.FinalEquity, CAGR |-> common.CAGR,
              Sharpe |-> common.Sharpe, MaxDrawdown |-> common.MaxDrawdown,
              TotalPutPremium |-> 0]
        ELSE [FinalEquity |-> common.FinalEquity, CAGR |-> common.CAGR,
              Sharpe |-> common.Sharpe, MaxDrawdown |-> common.MaxDrawdown,
              MaxOpenPuts |-> MaxOf(MapSeq(eq, LAMBDA r: r.open_puts)),
              MaxHeldMNQ |-> MaxOf(MapSeq(eq, LAMBDA r: r.held_contracts)),
              TotalTrades |-> Len(rows)]

\* The code after the loop.  DataFrame([]) has no "date" column: set_index
\* and sort_values raise KeyError on it.
PostLoop(e, eq, rows) ==
    IF eq = <<>> THEN Raised("KeyError")
    ELSE IF rows = <<>> THEN Raised("KeyError")
    ELSE [kind |-> "returned",
          equity |-> eq,
          returns |-> pct_change(MapSeq(eq, LAMBDA r: r.equity)),
          trades |-> sort_values(rows),
          stats |-> Stats(e, eq, rows)]

\* ------------------------------------------------------------------------
\* Inputs: the price series and the raw values of the generators
\* ------------------------------------------------------------------------
\* The first close, and the daily moves of the close.  A long opened five
\* Drops before a Jump day is up exactly TARGET_POINTS on it.
S0 == 4 * TARGET_POINTS
Drop == TARGET_POINTS \div 25
Jump == TARGET_POINTS + 5 * Drop
Rise == 2 * Drop
Crash == 2 * Jump

\* The default series: one that falls by Drop a day, a flat one, a flat
\* one with a single Drop on day ROLL_WINDOW, and one that stands a Crash
\* above S0 from day 2, falls back to S0 on day ROLL_WINDOW and rebounds by
\* TARGET_POINTS four days later.  On the third, a Rise six days after the
\* Drop puts the next day's z at exactly +2.0.  On the fourth, the longs
\* assigned at S0 hit their target on the rebound day while the close is
\* still far below the window's mean.
Trends ==
    {[move |-> -Drop, dip |-> 0, rebound |-> 0],
     [move |-> 0, dip |-> 0, rebound |-> 0],
     [move |-> 0, dip |-> ROLL_WINDOW, rebound |-> 0],
     [move |-> 0, dip |-> 0, rebound |-> ROLL_WINDOW + 4]}

\* The move of day `day` on the default series, and the moves it may make
DefaultMove(day) ==
    IF trend.rebound # 0
    THEN IF day = 2 THEN Crash
         ELSE IF day = ROLL_WINDOW THEN -Crash
         ELSE IF day = trend.rebound THEN TARGET_POINTS
         ELSE 0
    ELSE IF day = trend.dip THEN -Drop ELSE trend.move
Moves ==
    IF trend.rebound # 0 THEN {-Drop}
    ELSE IF trend.dip = 0 THEN {-Drop, 0, Jump} ELSE {0, Rise}
Lengths == {0, 1, MaxDays}
Seeds == {SEED + 1}

\* The defaults of the draws: the largest candidate, an assigned contract,
\* the mean premium.
DefChoice == CHOOSE u \in PyRaw : \A v \in PyRaw : v <= u
DefAssign == CHOOSE u \in PyRaw : \A v \in PyRaw : u <= v
DefPremium == CHOOSE g \in NpRaw : \A v \in NpRaw : v <= g

RawOf(g) == IF g = "py" THEN PyRaw ELSE NpRaw

\* The generator state k draws ahead of g's current one
Key(g, k) == <<rng[g].seed, rng[g].pos + k>>
Known(g, k) == Key(g, k) \in DOMAIN tape[g]

\* What g's draw k positions ahead may return when b more inputs may leave
\* their default, and what a value costs of that allowance
Options(g, k, default, b) ==
    IF Known(g, k) THEN {tape[g][Key(g, k)]}
    ELSE IF b > 0 THEN RawOf(g) ELSE {default}

Cost(g, k, default, v) == IF ~Known(g, k) /\ v # default THEN 1 ELSE 0

\* The raw values of the assignment draws k..n of an iteration
RECURSIVE AssignDraws(_, _, _)
AssignDraws(k, n, b) ==
    IF k > n THEN {<<>>}
    ELSE UNION {{<<v>> \o rest :
                    rest \in AssignDraws(k + 1, n, b - Cost("py", k, DefAssign, v))} :
                v \in Options("py", k, DefAssign, b)}

\* The closes day `day` may have
PriceOptions(day) ==
    IF day <= Len(closes) THEN {closes[day]}
    ELSE IF day = 1 THEN {S0}
    ELSE {closes[day - 1] + m :
             m \in {DefaultMove(day)} \cup (IF devs < MaxDevs THEN Moves ELSE {})}

PriceCost(day, price) ==
    IF day > Len(closes) /\ day > 1 /\ price # closes[day - 1] + DefaultMove(day)
    THEN 1 ELSE 0

\* tape[g] with the draws vs, made from g's current state on, recorded
Record(g, vs) ==
    LET new == {Key(g, k - 1) : k \in 1..Len(vs)}
    IN  [key \in DOMAIN tape[g] \cup new |->
            IF key \in DOMAIN tape[g] THEN tape[g][key]
            ELSE vs[key[2] - rng[g].pos + 1]]

Advance(g, k) == [rng[g] EXCEPT !.pos = @ + k]

DrawCost(g, vs, default(_)) ==
    SumSeq([k \in 1..Len(vs) |-> Cost(g, k - 1, default(k), vs[k])])

\* ------------------------------------------------------------------------
\* Actions
\* ------------------------------------------------------------------------
Engine == [cash |-> cash, positions |-> positions, open_puts |-> open_puts,
           open_calls |-> open_calls, rows |-> trade_log_rows]

\* The process after `import mnq_sim` (which seeds both generators).
Init ==
    /\ run = "none"
    /\ engine = "none"
    /\ seed = SEED
    /\ trend \in Trends
    /\ ndays = 0
    /\ closes = <<>>
    /\ pc = "idle"
    /\ i = 0
    /\ cash = START_EQUITY
    /\ positions = <<>>
    /\ open_puts = <<>>
    /\ open_calls = <<>>
    /\ equity_curve = <<>>
    /\ trade_log_rows = <<>>
    /\ loc = NoLocals
    /\ rng = [py |-> [seed |-> SEED, pos |-> 0], np |-> [seed |-> SEED, pos |-> 0]]
    /\ tape = [py |-> <<>>, np |-> <<>>]
    /\ devs = 0
    /\ others = 0
    /\ result = NoResult
    /\ prev = NoResult

\* Mutant: run_strategy_on seeds `random` only.
Reseed_PyOnly(e, sd) ==
    IF e = "run_strategy_on"
    THEN [py |-> [seed |-> sd, pos |-> 0], np |-> rng.np]
    ELSE rng

\* random.seed(seed); np.random.seed(seed)   (run_strategy_on only)
Reseed(e, sd) ==
    IF e = "run_strategy_on"
    THEN [py |-> [seed |-> sd, pos |-> 0], np |-> [seed |-> sd, pos |-> 0]]
    ELSE rng

\* The entry of an invocation up to the loop.  fetch_mnq_20y raises on an
\* empty table.
Enter(e, sd, n) ==
    /\ engine' = e
    /\ seed' = sd
    /\ ndays' = n
    /\ rng' = Reseed(e, sd)
    /\ i' = 0
    /\ cash' = START_EQUITY
    /\ positions' = <<>>
    /\ open_puts' = <<>>
    /\ open_calls' = <<>>
    /\ equity_curve' = <<>>
    /\ trade_log_rows' = <<>>
    /\ loc' = NoLocals
    /\ prev' = result
    /\ IF e = "run_sim" /\ n = 0
       THEN pc' = "idle" /\ result' = Raised("RuntimeError")
       ELSE pc' = "loop" /\ result' = NoResult
    /\ UNCHANGED <<trend, closes, tape, devs, others>>

\* The first invocation: either engine, on a series of any of the lengths.
Call ==
    /\ pc = "idle" /\ run = "none"
    /\ run' = "first"
    /\ \E e \in Engines, n \in Lengths :
         \E sd \in IF e = "run_strategy_on" THEN Seeds ELSE {SEED} :
            Enter(e, sd, n)

\* The second invocation: the same function on the same arguments.
CallAgain ==
    /\ pc = "idle" /\ run = "first"
    /\ run' = "second"
    /\ Enter(engine, seed, ndays)

\* Other code of the process draws from a generator between two invocations.
OtherDraw ==
    /\ pc = "idle" /\ run = "first" /\ others < MaxOther
    /\ others' = others + 1
    /\ \E g \in {"py", "np"} : rng' = [rng EXCEPT ![g] = Advance(g, 1)]
    /\ UNCHANGED <<run, engine, seed, trend, ndays, closes, pc, i, cash, positions,
                   open_puts, open_calls, equity_curve, trade_log_rows, loc,
                   tape, devs, result, prev>>

\* One iteration of the day loop with the draws pyd of `random` and npd of
\* `np.random`, on the close `price`.
Commit(price, pyd, npd, cost) ==
    LET day == i + 1
        cl == IF day <= Len(closes) THEN closes ELSE Append(closes, price)
        z == add_zscores(cl, day, ROLL_WINDOW)
        s == Iterate(engine, Engine, day, ndays, price, z, pyd, npd)
    IN  /\ closes' = cl
        /\ i' = day
        /\ cash' = s.cash
        /\ positions' = s.positions
        /\ open_puts' = s.open_puts
        /\ open_calls' = s.open_calls
        /\ trade_log_rows' = s.rows
        /\ equity_curve' = Append(equity_curve, EquitySample(engine, s, day, price, z))
        /\ loc' = Locals(engine, Engine, day, price, z, pyd)
        /\ rng' = [py |-> Advance("py", Len(pyd)), np |-> Advance("np", Len(npd))]
        /\ tape' = [py |-> Record("py", pyd), np |-> Record("np", npd)]
        /\ devs' = devs + cost
        /\ UNCHANGED <<run, engine, seed, trend, ndays, pc, others, result, prev>>

DayStep ==
    /\ pc = "loop" /\ i < ndays
    /\ \E price \in PriceOptions(i + 1) :
         LET day == i + 1
             cl == IF day <= Len(closes) THEN closes ELSE Append(closes, price)
             z == add_zscores(cl, day, ROLL_WINDOW)
             s3 == AfterClosure(Engine, day, price)
             b0 == MaxDevs - devs - PriceCost(day, price)
             put == PutSignal(engine, z)
             call == CallSignal(engine, z, s3)
         IN  \E u \in IF put THEN Options("py", 0, DefChoice, b0) ELSE {0} :
               LET n == IF put
                        THEN ClippedCount(choice(CHOICES(engine), u),
                                          MaxContracts(engine, used_notional(s3)))
                        ELSE 0
                   b1 == b0 - (IF put THEN Cost("py", 0, DefChoice, u) ELSE 0)
               IN  \E us \in AssignDraws(1, n, b1) :
                     LET pyd == IF put THEN <<u>> \o us ELSE <<>>
                         b2 == MaxDevs - devs - PriceCost(day, price)
                                 - DrawCost("py", pyd,
                                      LAMBDA k: IF k = 1 THEN DefChoice ELSE DefAssign)
                     IN  \E g1 \in IF n > 0 THEN Options("np", 0, DefPremium, b2) ELSE {0} :
                           LET b3 == b2 - (IF n > 0 THEN Cost("np", 0, DefPremium, g1) ELSE 0)
                               k2 == IF n > 0 THEN 1 ELSE 0
                           IN  \E g2 \in IF call THEN Options("np", k2, DefPremium, b3) ELSE {0} :
                                 LET npd == (IF n > 0 THEN <<g1>> ELSE <<>>)
                                              \o (IF call THEN <<g2>> ELSE <<>>)
                                 IN  Commit(price, pyd, npd,
                                        PriceCost(day, price)
                                        + DrawCost("py", pyd,
                                             LAMBDA k: IF k = 1 THEN DefChoice ELSE DefAssign)
                                        + DrawCost("np", npd, LAMBDA k: DefPremium))

\* Mutant: the loop may be left before the last date.
Finish_Early ==
    /\ pc = "loop"
    /\ pc' = "idle"
    /\ result' = PostLoop(engine, equity_curve, trade_log_rows)
    /\ UNCHANGED <<run, engine, seed, trend, ndays, closes, i, cash, positions,
                   open_puts, open_calls, equity_curve, trade_log_rows, loc, rng,
                   tape, devs, others, prev>>

\* The loop has ended: build the tables and return, or raise.
Finish ==
    /\ pc = "loop" /\ i = ndays
    /\ pc' = "idle"
    /\ result' = PostLoop(engine, equity_curve, trade_log_rows)
    /\ UNCHANGED <<run, engine, seed, trend, ndays, closes, i, cash, positions,
                   open_puts, open_calls, equity_curve, trade_log_rows, loc, rng,
                   tape, devs, others, prev>>

Next == Call \/ CallAgain \/ OtherDraw \/ DayStep \/ Finish

Spec == Init /\ [][Next]_vars

\* An invocation that has started keeps running: the interpreter executes
\* the next iteration of the loop while dates remain, and the code after the
\* loop when none remains.  This is WF_vars(DayStep) /\ WF_vars(Finish) with
\* the enabling condition of each action written out: a day step can be
\* taken exactly when pc = "loop" /\ i < ndays, Finish exactly when
\* pc = "loop" /\ i = ndays.
FairSpec ==
    /\ Spec
    /\ []<>~(pc = "loop" /\ i < ndays) \/ []<><<DayStep>>_vars
    /\ []<>~(pc = "loop" /\ i = ndays) \/ []<><<Finish>>_vars

\* ------------------------------------------------------------------------
\* Properties
\* ------------------------------------------------------------------------
\* A day step has been taken by the invocation in progress or just ended.
Stepped == run # "none" /\ i > 0

\* The close of the last day processed
Close == closes[i]

\* The ledger rows of day d, and those of one type
RowsOn(d) == SelectSeq(trade_log_rows, LAMBDA r: r.date = d)
RowsOf(rows, type) == SelectSeq(rows, LAMBDA r: r.type = type)

\* C1. Cap invariant: in both engines, at the end of every day step the
\* contracts of the open puts plus the contracts held, at CONTRACT_NOTIONAL
\* each, do not exceed the engine's RISK_CAP; every equity sample shows it.
C1_CapInvariant ==
    /\ (Contracts(open_puts) + Contracts(positions)) * CONTRACT_NOTIONAL
          <= RISK_CAP(engine)
    /\ \A d \in 1..Len(equity_curve) :
          (equity_curve[d].open_puts + equity_curve[d].held_contracts)
             * CONTRACT_NOTIONAL <= RISK_CAP(engine)

\* The cap clipped a sale: fewer puts than the candidate count were sold,
\* and one more contract would have passed the cap.
C1_Witness ==
    /\ Stepped /\ loc.put_signal
    /\ 0 < loc.n /\ loc.n < loc.cand
    /\ (Contracts(open_puts) + Contracts(positions) + 1) * CONTRACT_NOTIONAL
          > RISK_CAP(engine)

\* C2. Determinism of run_strategy_on: the second invocation on the same
\* price series with the same seed ends as the first did, with the same
\* equity samples, returns, trade ledger and stats, whatever was drawn from
\* the generators in between.
C2_Determinism ==
    (engine = "run_strategy_on" /\ run = "second" /\ pc = "idle")
       => result = prev

\* Both invocations returned tables, trades were made on random draws, and
\* other code drew from a generator between the two.
C2_Witness ==
    /\ engine = "run_strategy_on" /\ run = "second" /\ pc = "idle"
    /\ result.kind = "returned" /\ prev.kind = "returned"
    /\ RowsOf(result.trades, "SELL_PUT") # <<>>
    /\ others > 0

\* C3. Position closure timing: at the end of every day step no open long
\* is up TARGET_POINTS or more on that day's close; and every long that was
\* closed was opened on an earlier day, was below its target at the end of
\* every day from its entry to the day before its closure, and was at or
\* above it on the day it closed.
C3_ClosureTiming ==
    Stepped =>
       /\ \A k \in 1..Len(positions) :
             Close - positions[k].entry_price < TARGET_POINTS
       /\ \A k \in 1..Len(trade_log_rows) :
             LET r == trade_log_rows[k]
             IN  r.type = "CLOSE_LONG" =>
                   /\ closes[r.date] - r.entry_price >= TARGET_POINTS
                   /\ \E j \in 1..(k - 1) :
                         LET a == trade_log_rows[j]
                         IN  /\ a.type = "ASSIGN_PUT"
                             /\ a.price = r.entry_price
                             /\ a.contracts = r.contracts
                             /\ a.date < r.date
                             /\ \A d \in a.date..(r.date - 1) :
                                   closes[d] - r.entry_price < TARGET_POINTS

\* A long was closed today exactly TARGET_POINTS up while another stays open.
C3_Witness ==
    /\ Stepped /\ positions # <<>>
    /\ \E k \in 1..Len(trade_log_rows) :
          /\ trade_log_rows[k].type = "CLOSE_LONG"
          /\ trade_log_rows[k].date = i
          /\ trade_log_rows[k].points = TARGET_POINTS

\* The step is an iteration of the day loop.
IsDayStep == pc = "loop" /\ i' = i + 1

\* The ledger rows the step appends
Fresh == SubSeq(trade_log_rows', Len(trade_log_rows) + 1, Len(trade_log_rows'))

\* sum of the cash_change column
CashChange(rows) == SumSeq(<<>> \o [k \in 1..Len(rows) |-> rows[k].cash_change])

\* Gain of the long p at the close c, in dollars
Gain(p, c) == (c - p.entry_price) * POINT_VALUE * p.contracts

TicketBounds ==
    \A k \in 1..Len(open_puts) :
       /\ 0 <= open_puts[k].assigned_contracts
       /\ open_puts[k].assigned_contracts <= open_puts[k].contracts

\* C5. Assignment bookkeeping: every put ticket has 0 <= assigned_contracts
\* <= contracts; when a day step processes a ticket with a assigned
\* contracts at its expiry, it opens exactly one long of a contracts at the
\* day's close and appends exactly one ASSIGN_PUT row of zero cash change if
\* a > 0, and opens no long and appends no row if a = 0.
C5_AssignmentBookkeeping ==
    /\ []TicketBounds
    /\ [][IsDayStep =>
            LET day == i'
                c == closes'[i']
                taken == SelectSeq(open_puts,
                            LAMBDA t: day >= t.expires_on /\ t.assigned_contracts > 0)
                opened == SelectSeq(positions', LAMBDA p: p.entry_day = day)
                assignRows == RowsOf(Fresh, "ASSIGN_PUT")
            IN  /\ Len(opened) = Len(taken)
                /\ Len(assignRows) = Len(taken)
                /\ \A k \in 1..Len(taken) :
                      /\ opened[k] = [entry_day |-> day, entry_price |-> c,
                                      contracts |-> taken[k].assigned_contracts]
                      /\ assignRows[k].date = day
                      /\ assignRows[k].contracts = taken[k].assigned_contracts
                      /\ assignRows[k].price = c
                      /\ assignRows[k].cash_change = 0
                /\ Len(positions') = Len(SelectSeq(positions',
                                            LAMBDA p: p.entry_day < day)) + Len(taken)
         ]_vars

\* A ticket none of whose contracts was assigned expired today, opening no
\* long, while a long opened by an earlier assigned ticket is held.
C5_Witness ==
    /\ Stepped /\ i > 1
    /\ \E k \in 1..Len(trade_log_rows) :
          /\ trade_log_rows[k].type = "SELL_PUT"
          /\ trade_log_rows[k].date = i - 1
          /\ trade_log_rows[k].note = 0
    /\ RowsOf(RowsOn(i), "ASSIGN_PUT") = <<>>
    /\ \A k \in 1..Len(open_puts) : open_puts[k].open_day = i
    /\ positions # <<>>

\* C6. Equity continuity: the sample recorded at the end of a day step has
\* equity = cash + sum over the open longs of (close - entry_price) *
\* POINT_VALUE * contracts, and its cash, unrealized, held_contracts,
\* open_puts and open_calls fields are the cash, that sum, and the contracts
\* of the longs, put tickets and call tickets open at that moment.
C6_EquityContinuity ==
    Stepped =>
       LET smp == equity_curve[i]
           unreal == SumSeq(<<>> \o [k \in 1..Len(positions) |->
                        (Close - positions[k].entry_price) * POINT_VALUE
                           * positions[k].contracts])
       IN  /\ Len(equity_curve) = i
           /\ smp.date = i
           /\ smp.equity = cash + unreal
           /\ smp.cash = cash
           /\ smp.unrealized = unreal
           /\ smp.held_contracts = Contracts(positions)
           /\ smp.open_puts = Contracts(open_puts)
           /\ smp.open_calls = Contracts(open_calls)
           /\ \A d \in 1..i :
                 equity_curve[d].equity
                    = equity_curve[d].cash + equity_curve[d].unrealized

\* A sample taken with longs of several contracts marked away from their
\* entry and covered calls open.
C6_Witness ==
    /\ Stepped
    /\ equity_curve[i].unrealized # 0
    /\ equity_curve[i].held_contracts > Len(positions)
    /\ equity_curve[i].open_calls > 0

\* An invocation has ended.
Ended == run # "none" /\ pc = "idle"

\* The z-score is undefined on every day of the series read.
NoZ == \A d \in 1..Len(closes) : isnan(add_zscores(closes, d, ROLL_WINDOW))

\* C7. No-signal run: a run on a price series that has a full window of
\* rows and an undefined z-score on every day (a flat series) returns, with
\* an empty trade ledger, one equity sample per day, each with equity =
\* START_EQUITY, and a Sharpe statistic that is NaN.
C7_NoSignalRun ==
    (Ended /\ ndays >= ROLL_WINDOW /\ Len(closes) = ndays /\ NoZ) =>
       /\ result.kind = "returned"
       /\ result.trades = <<>>
       /\ Len(result.equity) = ndays
       /\ \A d \in 1..ndays : result.equity[d].equity = START_EQUITY
       /\ result.stats.Sharpe.nan

\* C8. Empty-input robustness: run_strategy_on on a price series of zero
\* rows or of one row returns, with an empty trade ledger and as many
\* equity samples as the series has rows.
C8_EmptyInput ==
    (Ended /\ engine = "run_strategy_on" /\ ndays <= 1) =>
       /\ result.kind = "returned"
       /\ result.trades = <<>>
       /\ Len(result.equity) = ndays

\* The elements of a sequence
Range(seq) == {seq[k] : k \in 1..Len(seq)}

C10_PutLifecycle ==
    Stepped => \A k \in 1..Len(open_puts) : open_puts[k].expires_on > i

\* C11. Call ticket lifecycle: a call ticket sold on day d of an N-day
\* series expires on day min(d + 2, N), a day of the series; it is open at
\* the end of every day before that day; and at the end of every day step
\* each open call ticket expires on a later day, that is, no ticket is open
\* at the end of its expires_on day.
C11_CallLifecycle ==
    Stepped =>
       /\ \A k \in 1..Len(open_calls) :
             /\ open_calls[k].expires_on = Min(open_calls[k].open_day + 2, ndays)
             /\ open_calls[k].expires_on <= ndays
             /\ open_calls[k].expires_on > i
       /\ \A k \in 1..Len(trade_log_rows) :
             LET r == trade_log_rows[k]
             IN  (r.type = "SELL_COVERED_CALL" /\ i < Min(r.date + 2, ndays)) =>
                    \E j \in 1..Len(open_calls) :
                       /\ open_calls[j].open_day = r.date
                       /\ open_calls[j].contracts = r.contracts

\* The rows that collect a premium or close a long
MovesCash(r) == r.type \in {"SELL_PUT", "SELL_COVERED_CALL", "CLOSE_LONG"}

\* C12. Cash frame: after every day step cash = START_EQUITY + the sum of
\* cash_change over all ledger rows so far; rows other than SELL_PUT,
\* SELL_COVERED_CALL and CLOSE_LONG (assignments, cap skips) carry no cash
\* change; and from one sample to the next cash moves by exactly the
\* premiums and closures logged on that day, so an expiry moves no cash and
\* a premium is kept whether or not the put is assigned.
C12_CashFrame ==
    Stepped =>
       /\ cash = START_EQUITY + CashChange(trade_log_rows)
       /\ \A k \in 1..Len(trade_log_rows) :
             ~MovesCash(trade_log_rows[k]) => trade_log_rows[k].cash_change = 0
       /\ \A d \in 1..i :
             equity_curve[d].cash
                = (IF d = 1 THEN START_EQUITY ELSE equity_curve[d - 1].cash)
                  + CashChange(SelectSeq(RowsOn(d), MovesCash))

\* A put ticket with contracts that were not assigned has expired, and
\* another was assigned.
C12_Witness ==
    /\ Stepped
    /\ \E k \in 1..Len(trade_log_rows) :
          /\ trade_log_rows[k].type = "SELL_PUT"
          /\ trade_log_rows[k].date < i
          /\ trade_log_rows[k].note < trade_log_rows[k].contracts
    /\ RowsOf(trade_log_rows, "ASSIGN_PUT") # <<>>
    /\ cash > START_EQUITY

\* The equity column of the samples taken so far
Equities == <<>> \o [d \in 1..Len(equity_curve) |-> equity_curve[d].equity]

\* C13. Drawdown bound: for the equity curve the engine has produced,
\* max_drawdown = min over days t of equity_t / running_max_t - 1 is <= 0,
\* and it is 0 if and only if equity never falls from one day to the next;
\* the Max Drawdown statistic of a run that returns is that value.
C13_DrawdownBound ==
    Stepped =>
       LET md == max_drawdown(Equities)
       IN  /\ md.den > 0
           /\ md.num <= 0
           /\ md.num = 0 <=> \A d \in 1..(i - 1) : Equities[d] <= Equities[d + 1]
           /\ (Ended /\ result.kind = "returned") =>
                 result.stats.MaxDrawdown = md

\* A run returned whose equity both rose and fell, with a drawdown below 0.
C13_Witness ==
    /\ Ended /\ result.kind = "returned"
    /\ result.stats.MaxDrawdown.num < 0
    /\ \E d \in 1..(i - 1) : Equities[d] < Equities[d + 1]
    /\ Equities[i] > START_EQUITY

\* C14. Determinism of run_sim: the second invocation of run_sim in the
\* process, on the same fetched price series, ends as the first did, with
\* the same equity samples, returns, trade ledger and stats.
C14_HistDeterminism ==
    (engine = "run_sim" /\ run = "second" /\ pc = "idle")
       => result = prev

\* The raw values generator g returned during the step
Drawn(g) ==
    <<>> \o [k \in 1..(rng'[g].pos - rng[g].pos) |->
                tape'[g][<<rng[g].seed, rng[g].pos + k - 1>>]]

\* The columns the equity samples of both engines have
SampleColumns ==
    {"date", "equity", "cash", "unrealized", "held_contracts", "open_puts",
     "open_calls"}

\* C15. Variant equivalence: in every day step, the code of the other
\* engine, run from the same state with the running engine's constants on
\* the same close, the same z and the same random draws, leaves the same
\* cash, positions, open puts and open calls, the same ledger and the same
\* equity sample (on the columns both engines record).
C15_VariantEquivalence ==
    [][IsDayStep =>
         LET day == i'
             price == closes'[day]
             z == add_zscores(closes', day, ROLL_WINDOW)
             other == SideBySide(engine)
             s2 == Iterate(other, Engine, day, ndays, price, z,
                           Drawn("py"), Drawn("np"))
             smp2 == EquitySample(other, s2, day, price, z)
         IN  /\ s2.cash = cash'
             /\ s2.positions = positions'
             /\ s2.open_puts = open_puts'
             /\ s2.open_calls = open_calls'
             /\ s2.rows = trade_log_rows'
             /\ \A f \in SampleColumns : smp2[f] = equity_curve'[day][f]
      ]_vars

\* The put signal fired today and no contract fits under the cap.
CapHit ==
    LET z == add_zscores(closes, i, ROLL_WINDOW)
        older == SelectSeq(open_puts, LAMBDA t: t.open_day < i)
        used == (Contracts(older) + Contracts(positions)) * CONTRACT_NOTIONAL
    IN  /\ ~isnan(z) /\ ZLe(z, PUT_Z(engine))
        /\ (RISK_CAP(engine) - used) \div CONTRACT_NOTIONAL <= 0

\* Today's ledger shows one SKIP_PUT_CAP row of zero contracts and zero cash
\* change and no put sale, and no put ticket was opened.
SkipLogged ==
    LET skips == RowsOf(RowsOn(i), "SKIP_PUT_CAP")
    IN  /\ Len(skips) = 1
        /\ skips[1].contracts = 0
        /\ skips[1].cash_change = 0
        /\ RowsOf(RowsOn(i), "SELL_PUT") = <<>>
        /\ \A k \in 1..Len(open_puts) : open_puts[k].open_day < i

\* C16. Cap-hit trace: in both engines, at the end of a day step on which
\* the put signal fired (z defined, z <= PUT_Z) and the count clipped to the
\* room under the cap was 0, the day's ledger has exactly one SKIP_PUT_CAP
\* row with zero contracts and zero cash change, and no put was sold.
C16_CapHitTrace == (Stepped /\ CapHit) => SkipLogged

\* After k steps the equity curve holds k samples, the d-th dated with the
\* d-th date; the loop never passes the last date and an invocation that
\* has ended has stepped through every date.
OneSamplePerDay ==
    /\ Len(equity_curve) = i
    /\ i <= ndays
    /\ \A d \in 1..i : equity_curve[d].date = d
    /\ Ended => i = ndays

\* A day step appends one sample and leaves the earlier ones as they were;
\* no other step within an invocation touches the curve.
AppendOnly ==
    IF IsDayStep
    THEN /\ Len(equity_curve') = Len(equity_curve) + 1
         /\ SubSeq(equity_curve', 1, Len(equity_curve)) = equity_curve
    ELSE equity_curve' = equity_curve \/ (pc = "idle" /\ equity_curve' = <<>>)

\* Every step of a running invocation either processes the next date, while
\* dates remain, or leaves the loop, when none remains: the number of dates
\* left, ndays - i, falls by one with each iteration and the loop ends at 0.
LoopProgress ==
    pc = "loop" =>
       \/ i < ndays /\ i' = i + 1 /\ pc' = "loop"
       \/ i = ndays /\ i' = i /\ pc' = "idle"

\* C17. One sample per day and termination: on a series of N rows the day
\* loop takes exactly N steps in date order and then stops; after step k
\* the equity curve holds exactly k samples, the k-th dated with the k-th
\* date, and earlier samples are never changed or removed.
C17_OneSamplePerDay ==
    /\ []OneSamplePerDay
    /\ [][AppendOnly /\ LoopProgress]_vars
    /\ (pc = "loop") ~> (pc = "idle")

\* An invocation on the longest series has ended with one sample per row.
C17_Witness ==
    /\ Ended /\ ndays = MaxDays
    /\ i = MaxDays /\ Len(equity_curve) = MaxDays
    /\ trade_log_rows # <<>>

UndefinedZ(cl, d) ==
    \/ d < ROLL_WINDOW
    \/ \A k \in (d - ROLL_WINDOW + 1)..d : cl[k] = cl[d]

\* The row records a put sale, a cap skip or a call sale.
SignalRow(r) == r.type \in {"SELL_PUT", "SKIP_PUT_CAP", "SELL_COVERED_CALL"}

\* C19. Undefined z means no signal, not no step: a day step on a day whose
\* z is undefined (a warm-up day, or a window of zero deviation) is taken
\* all the same; it draws no random number and logs no SELL_PUT,
\* SKIP_PUT_CAP or SELL_COVERED_CALL row; cash, longs, tickets and ledger
\* come out of it exactly as the put-expiry, call-expiry and closure phases
\* leave them; and it appends the day's equity sample.
C19_UndefinedZ ==
    /\ [](Stepped => (isnan(loc.z) <=> UndefinedZ(closes, i)))
    /\ [][(IsDayStep /\ UndefinedZ(closes', i')) =>
            LET s3 == AfterClosure(Engine, i', closes'[i'])
            IN  /\ rng' = rng
                /\ SelectSeq(Fresh, SignalRow) = <<>>
                /\ cash' = s3.cash
                /\ positions' = s3.positions
                /\ open_puts' = s3.open_puts
                /\ open_calls' = s3.open_calls
                /\ trade_log_rows' = s3.rows
                /\ Len(equity_curve') = Len(equity_curve) + 1
                /\ equity_curve'[i'].date = i'
                /\ equity_curve'[i'].held_contracts = Contracts(positions')
         ]_vars

\* A day past the warm-up with a window of equal closes was stepped through
\* with a long open, without a draw.
C19_Witness ==
    /\ Stepped /\ i > ROLL_WINDOW
    /\ UndefinedZ(closes, i)
    /\ positions # <<>>
    /\ equity_curve[i].held_contracts > 0
    /\ loc.py_draws = 0

\* The warm-up days: day indices 0 .. ROLL_WINDOW - 2 of the code, days
\* 1 .. ROLL_WINDOW - 1 here (the first day processed is day 1).
WarmUp == 1..(ROLL_WINDOW - 1)

\* The sample shows the state the invocation started from.
InitialSample(r) ==
    /\ r.equity = START_EQUITY /\ r.cash = START_EQUITY /\ r.unrealized = 0
    /\ r.held_contracts = 0 /\ r.open_puts = 0 /\ r.open_calls = 0

\* The table opens with a put sale made once a full window exists, and no
\* row of it is dated before that sale.
OpensWithPutSale(rows) ==
    rows # <<>> =>
        /\ rows[1].type = "SELL_PUT"
        /\ rows[1].date >= ROLL_WINDOW
        /\ \A k \in 1..Len(rows) : rows[k].date >= rows[1].date

\* C20. Warm-up: in both engines z is undefined on every day before a full
\* window of ROLL_WINDOW closes exists; through the end of the last such
\* day the cash is START_EQUITY, there are no longs, no open puts and no
\* open calls, the ledger is empty, and every equity sample of those days
\* shows START_EQUITY.  The first row of the ledger, and of the trades table
\* returned, is a SELL_PUT dated on or after the first day with a full
\* window; no SKIP_PUT_CAP or other row comes before it.
C20_WarmUp ==
    run # "none" =>
        /\ \A d \in WarmUp : d <= Len(closes) => isnan(add_zscores(closes, d, ROLL_WINDOW))
        /\ i \in {0} \cup WarmUp =>
              /\ cash = START_EQUITY
              /\ positions = <<>> /\ open_puts = <<>> /\ open_calls = <<>>
              /\ trade_log_rows = <<>>
        /\ \A d \in WarmUp : d <= Len(equity_curve) =>
              /\ equity_curve[d].date = d
              /\ InitialSample(equity_curve[d])
              /\ ("z" \in DOMAIN equity_curve[d] => isnan(equity_curve[d].z))
        /\ OpensWithPutSale(trade_log_rows)
        /\ result.kind = "returned" => OpensWithPutSale(result.trades)

\* Reached: a run whose closes moved during the warm-up, whose first row is
\* a SELL_PUT on the first day with a full window, and which went on to log
\* other rows and returned its tables.
C20_Witness ==
    /\ Ended /\ result.kind = "returned"
    /\ \E d \in WarmUp : closes[d] # closes[1]
    /\ result.trades[1].type = "SELL_PUT"
    /\ result.trades[1].date = ROLL_WINDOW
    /\ Len(result.trades) > 1
    /\ \A d \in WarmUp : InitialSample(result.equity[d])

\* The room under the engine's cap, in contracts, with `used` contracts
\* counted against it
RoomWith(used) ==
    Max(0, (RISK_CAP(engine) - used * CONTRACT_NOTIONAL) \div CONTRACT_NOTIONAL)

\* Contracts of the put sale and of the assignments logged on day d
SoldOn(d) == Contracts(RowsOf(RowsOn(d), "SELL_PUT"))
AssignedOn(d) == Contracts(RowsOf(RowsOn(d), "ASSIGN_PUT"))

\* Day d sold more puts than the room left by the open puts and longs of
\* the evening before: contracts released on day d were sold again on it.
ResoldSameDay(d) ==
    /\ d > 1
    /\ SoldOn(d) > RoomWith(equity_curve[d - 1].open_puts
                            + equity_curve[d - 1].held_contracts)

\* Day d's sale was cut to the room left once the contracts assigned on
\* day d were counted, below what the longs of earlier days alone allowed.
AssignedCounted(d) ==
    /\ AssignedOn(d) > 0
    /\ SoldOn(d) > 0
    /\ SoldOn(d) = RoomWith(equity_curve[d].held_contracts)
    /\ SoldOn(d) < RoomWith(equity_curve[d].held_contracts - AssignedOn(d))
    /\ \A k \in 1..Len(CHOICES(engine)) : SoldOn(d) < CHOICES(engine)[k]

\* C21. Phase order feeds the cap check: on a day whose put signal fires,
\* the count sold is min(candidate, room), with the room computed from the
\* contracts in use after the day's expiries and closures: the open puts
\* and longs the day started with, less every contract of a ticket expiring
\* today and every contract of a long closed today, plus the contracts
\* assigned today.  So released contracts can be sold again the same day,
\* and contracts assigned today already count against today's sale.
C21_PhaseOrder ==
    [][(IsDayStep /\ ~isnan(add_zscores(closes', i', ROLL_WINDOW))
                  /\ ZLe(add_zscores(closes', i', ROLL_WINDOW), PUT_Z(engine))) =>
         LET day == i'
             c == closes'[day]
             expiring == SelectSeq(open_puts, LAMBDA t: day >= t.expires_on)
             assigned == SumSeq(MapSeq(expiring, LAMBDA t: t.assigned_contracts))
             closed == SelectSeq(positions, LAMBDA p: c - p.entry_price >= TARGET_POINTS)
             in_use == Contracts(open_puts) + Contracts(positions)
                         - Contracts(expiring) + assigned - Contracts(closed)
             cand == choice(CHOICES(engine), Drawn("py")[1])
         IN  /\ Len(Drawn("py")) >= 1
             /\ Contracts(RowsOf(Fresh, "SELL_PUT")) = Min(cand, RoomWith(in_use))
             /\ Contracts(positions') = Contracts(positions) + assigned - Contracts(closed)
      ]_vars

\* Reached: a run in which one day's sale was cut by the contracts assigned
\* that day, and a later day, on which a ticket expired with a contract not
\* assigned and longs were closed at target, sold the released contracts
\* again.
C21_Witness ==
    /\ Stepped
    /\ \E d \in 1..i : AssignedCounted(d)
    /\ \E d \in 2..i :
          /\ ResoldSameDay(d)
          /\ SoldOn(d - 1) > AssignedOn(d)
          /\ RowsOf(RowsOn(d), "CLOSE_LONG") # <<>>

\* `after` is `kept`, in order and field for field, followed by records
\* made on day `day` (the field `born` holds the day a record was made).
CarriedThenNew(kept, after, born, day) ==
    /\ Len(after) >= Len(kept)
    /\ SubSeq(after, 1, Len(kept)) = kept
    /\ \A k \in (Len(kept) + 1)..Len(after) : after[k][born] = day

\* C22. Untouched carry-over: in every day step of either engine, each long
\* whose gain at the day's close is below TARGET_POINTS is still held after
\* the step with the same entry_day, entry_price and contracts, as a record
\* of its own (no partial close, no netting, no merging); each put ticket
\* and each call ticket whose expiry day has not come is still open with
\* every field unchanged; whatever else the lists hold after the step was
\* made on that day.
C22_CarryOver ==
    [][IsDayStep =>
         LET day == i'
             c == closes'[day]
         IN  /\ CarriedThenNew(
                   SelectSeq(positions, LAMBDA p: c - p.entry_price < TARGET_POINTS),
                   positions', "entry_day", day)
             /\ CarriedThenNew(
                   SelectSeq(open_puts, LAMBDA t: day < t.expires_on),
                   open_puts', "open_day", day)
             /\ CarriedThenNew(
                   SelectSeq(open_calls, LAMBDA t: day < t.expires_on),
                   open_calls', "open_day", day)
      ]_vars

\* Reached: after a day step, two longs of earlier days with the same entry
\* price are held as two records and a call ticket of an earlier day is
\* still open.
C22_Witness ==
    /\ Stepped
    /\ \E j, k \in 1..Len(positions) :
          /\ j < k
          /\ positions[j].entry_price = positions[k].entry_price
          /\ positions[k].entry_day < i
    /\ \E k \in 1..Len(open_calls) :
          open_calls[k].open_day < i /\ open_calls[k].expires_on > i

\* C23. Calls stay covered: in both engines, at the end of every day step
\* the contracts of the open call tickets do not exceed the contracts of
\* the longs held, also when the call signal fires on consecutive days and
\* when longs close while calls are open.
C23_CallsCovered ==
    Stepped => Contracts(open_calls) <= Contracts(positions)

\* The largest count the engine's put sale may draw
LargestChoice == MaxOf(CHOICES(engine))

\* C24. At most one open put ticket: in both engines, at the end of every
\* day step the open-put list holds at most one ticket, and a ticket it
\* holds was opened on that day; so the open_puts column of every equity
\* sample is at most the largest count of the engine's choice list (2 in
\* run_sim, 7 in run_strategy_on).
C24_OneOpenPut ==
    Stepped =>
       /\ Len(open_puts) <= 1
       /\ \A k \in 1..Len(open_puts) : open_puts[k].open_day = i
       /\ \A d \in 1..Len(equity_curve) : equity_curve[d].open_puts <= LargestChoice

\* Reached: puts were sold on two consecutive days and the only open ticket
\* is today's, of the largest count.
C24_Witness ==
    /\ Stepped /\ i > 1
    /\ SoldOn(i - 1) > 0
    /\ Len(open_puts) = 1
    /\ open_puts[1].contracts = LargestChoice
    /\ equity_curve[i].open_puts = LargestChoice
    /\ equity_curve[i - 1].open_puts > 0

\* The row is a sale at a premium within [low, high], worth premium * n.
PremiumWithin(r, low, high) ==
    /\ low <= r.premium_per_contract /\ r.premium_per_contract <= high
    /\ r.contracts > 0
    /\ r.cash_change = r.premium_per_contract * r.contracts

\* C25. Cash never decreases: in both engines the cash column of the equity
\* samples never falls from one day to the next and is never below
\* START_EQUITY: every put and call premium lies in its clipping range,
\* which is positive, every closure realises at least TARGET_POINTS *
\* POINT_VALUE per contract, and no other row moves cash; equity falls from
\* one day to the next only when the unrealized column falls.
C25_CashMonotone ==
    Stepped =>
       /\ 0 < PUT_MIN /\ 0 < CALL_MIN
       /\ \A d \in 1..Len(equity_curve) : equity_curve[d].cash >= START_EQUITY
       /\ \A d \in 2..Len(equity_curve) :
             /\ equity_curve[d].cash >= equity_curve[d - 1].cash
             /\ equity_curve[d].equity < equity_curve[d - 1].equity =>
                   equity_curve[d].unrealized < equity_curve[d - 1].unrealized
       /\ \A k \in 1..Len(trade_log_rows) :
             LET r == trade_log_rows[k]
             IN  CASE r.type = "SELL_PUT" -> PremiumWithin(r, PUT_MIN, PUT_MAX)
                   [] r.type = "SELL_COVERED_CALL" -> PremiumWithin(r, CALL_MIN, CALL_MAX)
                   [] r.type = "CLOSE_LONG" ->
                         r.cash_change >= TARGET_POINTS * POINT_VALUE * r.contracts
                   [] OTHER -> r.cash_change = 0

\* Reached: a run that sold puts, closed a long for more than the target
\* gain, and had a day on which cash rose and equity fell.
C25_Witness ==
    /\ Stepped
    /\ RowsOf(trade_log_rows, "SELL_PUT") # <<>>
    /\ \E k \in 1..Len(trade_log_rows) :
          /\ trade_log_rows[k].type = "CLOSE_LONG"
          /\ trade_log_rows[k].points > TARGET_POINTS
    /\ \E d \in 2..i :
          /\ equity_curve[d].cash > equity_curve[d - 1].cash
          /\ equity_curve[d].equity < equity_curve[d - 1].equity

\* Contracts of the ledger rows of one type dated on or before day d
LoggedThrough(type, d) ==
    Contracts(SelectSeq(trade_log_rows, LAMBDA r: r.type = type /\ r.date <= d))

\* C26. Contract conservation: in both engines, at the end of every day
\* step the contracts held equal the contracts of all ASSIGN_PUT rows logged
\* so far less the contracts of all CLOSE_LONG rows logged so far, and the
\* held_contracts column of every sample shows that figure for its day;
\* the contracts of the ASSIGN_PUT rows never exceed the contracts of the
\* SELL_PUT rows of earlier days.
C26_ContractConservation ==
    Stepped =>
       /\ Contracts(positions)
            = LoggedThrough("ASSIGN_PUT", i) - LoggedThrough("CLOSE_LONG", i)
       /\ \A d \in 1..Len(equity_curve) :
             /\ equity_curve[d].held_contracts
                  = LoggedThrough("ASSIGN_PUT", d) - LoggedThrough("CLOSE_LONG", d)
             /\ LoggedThrough("ASSIGN_PUT", d) <= LoggedThrough("SELL_PUT", d - 1)

\* Reached: some contracts sold were not assigned, some assigned were
\* closed and some are still held.
C26_Witness ==
    /\ Stepped
    /\ LoggedThrough("CLOSE_LONG", i) > 0
    /\ LoggedThrough("ASSIGN_PUT", i) > LoggedThrough("CLOSE_LONG", i)
    /\ LoggedThrough("ASSIGN_PUT", i) < LoggedThrough("SELL_PUT", i - 2)
    /\ Contracts(positions) > 0

\* C27. Random draw order: within an invocation only day steps draw, and a
\* day step draws only for its signals.  On a day whose put signal fires,
\* `random` is drawn 1 + n times, n being the count sold: first the choice
\* of the candidate count (also when the cap leaves n = 0), then the n
\* assignment draws; `np.random` is drawn once for the put premium if
\* n > 0, and once more, after it, for the call premium if a call is sold.
\* On a day without a put signal `random` is not drawn, and on a day
\* without a sale `np.random` is not drawn.
C27_DrawOrder ==
    [][pc = "loop" =>
         IF IsDayStep
         THEN LET z == add_zscores(closes', i', ROLL_WINDOW)
                  put == ~isnan(z) /\ ZLe(z, PUT_Z(engine))
                  sp == RowsOf(Fresh, "SELL_PUT")
                  sc == RowsOf(Fresh, "SELL_COVERED_CALL")
                  n == Contracts(sp)
                  py == Drawn("py")
                  np == Drawn("np")
              IN  /\ Len(sp) <= 1 /\ Len(sc) <= 1
                  /\ Len(py) = IF put THEN 1 + n ELSE 0
                  /\ Len(np) = Len(sp) + Len(sc)
                  /\ put => n <= choice(CHOICES(engine), py[1])
                  /\ sp # <<>> =>
                        /\ sp[1].premium_per_contract
                             = clipped_normal(PUT_MEAN, PUT_SIGMA, PUT_MIN, PUT_MAX, np[1])
                        /\ sp[1].note = AssignedCount(SubSeq(py, 2, n + 1))
                        /\ open_puts'[Len(open_puts')].assigned_contracts = sp[1].note
                  /\ sc # <<>> =>
                        sc[1].premium_per_contract
                          = clipped_normal(CALL_MEAN, CALL_SIGMA, CALL_MIN, CALL_MAX,
                                           np[Len(np)])
         ELSE rng' = rng
      ]_vars

\* Reached: the end of a day whose put signal fired with no room under the
\* cap: the choice was drawn and nothing else, after days that sold puts.
C27_Witness ==
    /\ Stepped
    /\ loc.put_signal /\ loc.cand > 0 /\ loc.n = 0
    /\ loc.py_draws = 1
    /\ RowsOf(RowsOn(i), "SELL_PUT") = <<>>
    /\ RowsOf(trade_log_rows, "SELL_PUT") # <<>>

=============================================================================
